---- MODULE Spec2Model ----
(***************************************************************************)
(* The chat server of src/chatServer.py: the pool of connected writers     *)
(* (ConnectionPool) and the coroutine handle_connection that serves one    *)
(* client.  asyncio runs the handlers on one event loop, so a handler runs *)
(* without interruption from one `await` to the next; every action below   *)
(* is one such run of one handler.                                         *)
(*                                                                         *)
(* Text is modelled character by character: a str is a sequence of         *)
(* one-character strings, a bytes object a sequence of bytes, where an     *)
(* ASCII byte is written as its character and any other byte as "xHH".     *)
(***************************************************************************)
EXTENDS Integers, Sequences, FiniteSets, TLC

\* ------------------------------------------------------------------ bounds
\* Connections the listener accepts in a run.
MaxSessions == 3
\* Handler steps (runs of a handler from one await to the next) in a run.
MaxSteps == 7

Sessions == 1..MaxSessions

\* ------------------------------------------------------------------- text
\* handle_connection, the prompt written on accept
PROMPT ==
    <<">"," ","C","h","o","o","s","e"," ","y","o","u","r"," ","n","i","c","k","n","a","m","e",
      ":"," ">>

\* broadcast_user_join, the text after the nickname
JUST_JOINED ==
    <<" ","j","u","s","t"," ","j","o","i","n","e","d">>

\* broadcast_user_quit, the text after the nickname
JUST_QUIT ==
    <<" ","j","u","s","t"," ","q","u","i","t">>

\* the terminator every write of the pool appends
EOL ==
    <<"\n","\r">>

\* the command that ends a session
QUIT_CMD ==
    <<"/","q","u","i","t">>

\* the command that lists the pool
LIST_CMD ==
    <<"/","l","i","s","t">>

\* list_users, lines 87-88
LIST_HEAD ==
    <<"=","=","=","\n","\r","C","u","r","r","e","n","t","l","y"," ","c","o","n","n","e","c","t",
      "e","d"," ","u","s","e","r","s",":">>

\* list_users, line 90, before the nickname
LIST_ITEM ==
    <<"\n","\r"," ","-"," ">>

\* list_users, line 92
YOU ==
    <<" ","(","y","o","u",")">>

\* list_users, line 93
LIST_TAIL ==
    <<"\n","\r","=","=","=">>

\* send_welcome_message, the f-string up to {writer.nickname}
WELCOME_1 ==
    <<"\n"," "," "," "," "," "," "," "," ","\r","=","=","="," ","\n"," "," "," "," "," "," ",
      " "," ","\r","W","e","l","c","o","m","e"," ">>

\* send_welcome_message, the f-string up to {len(self.connection_pool) - 1}
WELCOME_2 ==
    <<"!","\n"," "," "," "," "," "," "," "," ","\r","\n"," "," "," "," "," "," "," "," ","\r",
      "T","h","e","r","e"," ","a","r","e"," ">>

\* send_welcome_message, the rest of the f-string
WELCOME_3 ==
    <<" ","u","s","e","r","(","s",")"," ","h","e","r","e"," ","b","e","s","i","d","e"," ","y",
      "o","u","\n"," "," "," "," "," "," "," "," ","\r"," "," "," "," "," "," "," "," "," "," ",
      " "," ","\n"," "," "," "," "," "," "," "," ","\r","H","e","l","p",":"," ","\n"," "," ",
      " "," "," "," "," "," "," ","\r","-"," ","T","y","p","e"," ","a","n","y","t","h","i","n",
      "g"," ","t","o"," ","c","h","a","t","\n"," "," "," "," "," "," "," "," "," ","\r","-"," ",
      "/","l","i","s","t"," ","w","i","l","l"," ","l","i","s","t"," ","a","l","l"," ","t","h",
      "e"," ","c","o","n","n","e","c","t","e","d"," ","u","s","e","r","s","\n"," "," "," "," ",
      " "," "," "," "," ","\r","-"," ","/","q","u","i","t"," ","w","i","l","l"," ","d","i","s",
      "c","o","n","n","e","c","t"," ","y","o","u","\n"," "," "," "," "," "," "," "," ","\r","=",
      "=","=","\n"," "," "," "," "," "," "," "," ">>

\* The characters str.strip() removes, among those of the model's alphabet.
WHITESPACE == {" ", "\t", "\n", "\r", "\f"}

\* The bytes of the model's alphabet that are not ASCII.  xC3 xA9 is the UTF-8
\* encoding of U+00E9; xA9 alone, xC3 without a continuation byte and xFF are not
\* valid UTF-8.
NON_ASCII == {"xC3", "xA9", "xFF"}

DIGITS == <<"0", "1", "2", "3", "4", "5", "6", "7", "8", "9">>

\* format(n) for an int, as an f-string renders it.
RECURSIVE str(_)
str(n) ==
    IF n < 0 THEN <<"-">> \o str(0 - n)
    ELSE IF n < 10 THEN <<DIGITS[n + 1]>>
    ELSE str(n \div 10) \o <<DIGITS[(n % 10) + 1]>>

\* bytes.decode() raises UnicodeDecodeError unless this holds: every xC3 is
\* followed by its continuation byte xA9, every xA9 follows an xC3, and there is
\* no xFF.
decodable(data) ==
    \A i \in 1..Len(data) :
        /\ data[i] # "xFF"
        /\ data[i] = "xC3" => (i < Len(data) /\ data[i + 1] = "xA9")
        /\ data[i] = "xA9" => (i > 1 /\ data[i - 1] = "xC3")

\* bytes.decode() of decodable bytes: xC3 xA9 becomes U+00E9, an ASCII byte its
\* character.
RECURSIVE decode(_)
decode(data) ==
    LET lead == {i \in 1..Len(data) : data[i] = "xC3"}
    IN  IF lead = {} THEN data
        ELSE LET i == CHOOSE x \in lead : \A y \in lead : x <= y
             IN  SubSeq(data, 1, i - 1) \o <<"U+00E9">>
                   \o decode(SubSeq(data, i + 2, Len(data)))

\* str.encode(): U+00E9 becomes xC3 xA9, an ASCII character its byte.
RECURSIVE encode(_)
encode(text) ==
    LET wide == {i \in 1..Len(text) : text[i] = "U+00E9"}
    IN  IF wide = {} THEN text
        ELSE LET i == CHOOSE x \in wide : \A y \in wide : x <= y
             IN  SubSeq(text, 1, i - 1) \o <<"xC3", "xA9">>
                   \o encode(SubSeq(text, i + 1, Len(text)))

\* str.strip() as it would be if only the trailing whitespace were removed.
strip_trailing(text) ==
    LET solid == {i \in 1..Len(text) : text[i] \notin WHITESPACE}
    IN  IF solid = {} THEN <<>>
        ELSE SubSeq(text, 1, CHOOSE i \in solid : \A j \in solid : j <= i)

\* str.strip(): the text without its leading and trailing whitespace.
strip(text) ==
    LET solid == {i \in 1..Len(text) : text[i] \notin WHITESPACE}
    IN  IF solid = {} THEN <<>>
        ELSE LET first == CHOOSE i \in solid : \A j \in solid : i <= j
                 last  == CHOOSE i \in solid : \A j \in solid : j <= i
             IN  SubSeq(text, first, last)

\* ---------------------------------------------------------------- dedent
\* textwrap.dedent, on the lines of the text (a line ends at "\n").
IsBlank(c) == c \in {" ", "\t"}

\* The position of the "\n" that ends the line starting at s, or Len(text) + 1.
LineEnd(text, s) ==
    CHOOSE e \in s..(Len(text) + 1) :
        /\ e = Len(text) + 1 \/ text[e] = "\n"
        /\ \A i \in s..(e - 1) : text[i] # "\n"

LineStarts(text) == {1} \cup {i + 1 : i \in {j \in 1..Len(text) : text[j] = "\n"}}

\* The number of blanks the line [s, e) starts with.
IndentLen(text, s, e) ==
    CHOOSE k \in 0..(e - s) :
        /\ \A i \in s..(s + k - 1) : IsBlank(text[i])
        /\ s + k = e \/ ~IsBlank(text[s + k])

\* _whitespace_only_re: a line of blanks only, which dedent empties.
WhitespaceOnly(text, s) ==
    LET e == LineEnd(text, s) IN e > s /\ IndentLen(text, s, e) = e - s

\* _leading_whitespace_re matches the lines that hold something besides blanks;
\* the margin is the longest common prefix of their indentations.
Indents(text) ==
    {SubSeq(text, s, s + IndentLen(text, s, LineEnd(text, s)) - 1) :
        s \in {x \in LineStarts(text) :
                 IndentLen(text, x, LineEnd(text, x)) < LineEnd(text, x) - x}}

Margin(text) ==
    LET ind == Indents(text)
    IN  IF ind = {} THEN <<>>
        ELSE LET one == CHOOSE x \in ind : TRUE
                 n == CHOOSE k \in 0..Len(one) :
                        /\ \A x \in ind : Len(x) >= k /\ SubSeq(x, 1, k) = SubSeq(one, 1, k)
                        /\ \A m \in (k + 1)..Len(one) :
                             \E x \in ind : Len(x) < m \/ SubSeq(x, 1, m) # SubSeq(one, 1, m)
             IN  SubSeq(one, 1, n)

RECURSIVE DedentFrom(_, _, _)
DedentFrom(text, s, margin) ==
    LET e == LineEnd(text, s)
        m == Len(margin)
        line == IF WhitespaceOnly(text, s) THEN <<>>
                ELSE IF e - s >= m /\ SubSeq(text, s, s + m - 1) = margin
                     THEN SubSeq(text, s + m, e - 1)
                ELSE SubSeq(text, s, e - 1)
    IN  IF e > Len(text) THEN line
        ELSE line \o <<"\n">> \o DedentFrom(text, e + 1, margin)

dedent(text) == DedentFrom(text, 1, Margin(text))

\* ------------------------------------------------------------- messages
\* send_welcome_message as it would be with the count taken of the whole pool,
\* the new writer included.
welcome_message_counting_self(nick, size) ==
    encode(dedent(WELCOME_1 \o nick \o WELCOME_2 \o str(size) \o WELCOME_3) \o EOL)

\* send_welcome_message: what it writes for a nickname and a pool of `size` writers.
welcome_message(nick, size) ==
    encode(dedent(WELCOME_1 \o nick \o WELCOME_2 \o str(size - 1) \o WELCOME_3) \o EOL)

\* broadcast: what it writes to each receiver for a message.
broadcast_data(message) == encode(message \o EOL)

\* broadcast_user_join, broadcast_user_quit, broadcast_new_message: the message.
join_message(nick) == nick \o JUST_JOINED
quit_message(nick) == nick \o JUST_QUIT
chat_message(nick, message) == <<"[">> \o nick \o <<"]", ":", " ">> \o message

\* list_users as it would be if it marked the lines by nickname, not by writer.
RECURSIVE list_items_by_name(_, _, _, _)
list_items_by_name(order, i, writer, nicks) ==
    IF i > Len(order) THEN <<>>
    ELSE LIST_ITEM \o nicks[order[i]]
           \o (IF nicks[order[i]] = nicks[writer] THEN YOU ELSE <<>>)
           \o list_items_by_name(order, i + 1, writer, nicks)

\* list_users: the loop over the pool, visited in `order`, from position i on.
RECURSIVE list_items(_, _, _, _)
list_items(order, i, writer, nicks) ==
    IF i > Len(order) THEN <<>>
    ELSE LIST_ITEM \o nicks[order[i]]
           \o (IF order[i] = writer THEN YOU ELSE <<>>)
           \o list_items(order, i + 1, writer, nicks)

\* list_users: what it writes when the pool is iterated in `order`.
list_message(order, writer, nicks) ==
    encode(LIST_HEAD \o list_items(order, 1, writer, nicks) \o LIST_TAIL \o EOL)

\* ---------------------------------------------------------------- inputs
\* The lines a client sends as its nickname, as readuntil(b"\n") returns them:
\* blank, "a", "a" inside whitespace, a nickname that ends in " (you)", and a
\* line that is not valid UTF-8.
NICK_LINES ==
    { <<" ", "\n">>,
      <<" ", "a", "\r", "\n">>,
      <<"b", " ", "(", "y", "o", "u", ")", "\n">>,
      <<"xFF", "\n">> }

\* The lines a client sends in the active loop: the two commands, a command
\* inside whitespace, a line of non-ASCII text that only starts like a command,
\* the empty line and a line that is not valid UTF-8.
CHAT_LINES ==
    { <<"/", "q", "u", "i", "t", "\n">>,
      <<"/", "l", "i", "s", "t", "\n">>,
      <<" ", "/", "q", "u", "i", "t", "\r", "\n">>,
      <<"/", "xC3", "xA9", "\n">>,
      <<"\n">>,
      <<"xFF", "\n">> }

\* The orders in which iterating a set of writers can visit them: a Python set
\* of objects hashed by identity has no specified order.
Orders(pool) ==
    {order \in [1..Cardinality(pool) -> pool] :
        \A i, j \in 1..Cardinality(pool) : i # j => order[i] # order[j]}

\* The nicknames the lines of NICK_LINES give.
NICKNAMES == {strip(decode(data)) : data \in {d \in NICK_LINES : decodable(d)}}

\* welcome_message over the nicknames and pool sizes of the model, computed once.
welcome_messages ==
    [nick \in NICKNAMES, size \in 1..MaxSessions |-> welcome_message(nick, size)]

\* ----------------------------------------------------------------- state
VARIABLES
    connection_pool,  \* ConnectionPool.connection_pool: the set of writers
    nickname,         \* writer.nickname of each connection (<<>> until set)
    out,              \* per writer, its write() calls in order: the data, and
                      \* as history which message it is (by) and whose (of)
    pc,               \* where each handler is: not started ("new"), suspended at
                      \* an await ("nickname", "read", "drain", "wait_closed"),
                      \* returned ("done"), or ended by an exception nothing
                      \* catches ("raised")
    joined,           \* history: the writers added to the pool, in order
    leftBy,           \* history: what made each handler leave its loop
    steps,            \* handler steps taken so far
    event             \* history: the handler step taken last

vars == <<connection_pool, nickname, out, pc, joined, leftBy, steps, event>>

Init ==
    /\ connection_pool = {}
    /\ nickname = [s \in Sessions |-> <<>>]
    /\ out = [s \in Sessions |-> <<>>]
    /\ pc = [s \in Sessions |-> "new"]
    /\ joined = <<>>
    /\ leftBy = [s \in Sessions |-> "none"]
    /\ steps = 0
    /\ event = [op |-> "init"]

\* ----------------------------------------------------------- ConnectionPool
\* One write() call: the data written, the kind of message and the writer that
\* the call was made for.
Written(data, by, of) == [data |-> data, by |-> by, of |-> of]

\* StreamWriter.write(data) on one writer.
write(o, writer, call) == [o EXCEPT ![writer] = Append(@, call)]

\* StreamWriter.write as it would be if it raised on a writer that was closed.
write_raises_after_close(writer) == leftBy[writer] # "none"

\* StreamWriter.write raises nothing for the bytes the pool writes: when the
\* writer is closed or its connection is lost the transport drops the data.
write_raises(writer) == FALSE

\* set.add raises nothing, whether or not the writer is in the pool.
add_raises(pool, writer) == FALSE
add_new_user_to_pool(pool, writer) == pool \cup {writer}

\* set.remove raises KeyError unless the writer is in the pool.
remove_raises(pool, writer) == writer \notin pool
remove_user_from_pool(pool, writer) == pool \ {writer}

send_welcome_message(pool, o, writer, nicks) ==
    write(o, writer,
          Written(welcome_messages[nicks[writer], Cardinality(pool)], "welcome", writer))

\* broadcast as it would be without the test that skips the sender.
broadcast_echo(pool, o, writer, message, by) ==
    [user \in Sessions |->
        IF user \in pool
        THEN Append(o[user], Written(broadcast_data(message), by, writer))
        ELSE o[user]]

\* Every writer of the pool but the sender gets one write of the message.
broadcast(pool, o, writer, message, by) ==
    [user \in Sessions |->
        IF user \in pool /\ user # writer
        THEN Append(o[user], Written(broadcast_data(message), by, writer))
        ELSE o[user]]

\* broadcast_user_join as it would be if the sender were skipped by nickname:
\* a writer with the sender's nickname misses the announcement.
broadcast_user_join_by_name(pool, o, writer, nicks) ==
    [user \in Sessions |->
        IF user \in pool /\ nicks[user] # nicks[writer]
        THEN Append(o[user],
                    Written(broadcast_data(join_message(nicks[writer])), "join", writer))
        ELSE o[user]]

broadcast_user_join(pool, o, writer, nicks) ==
    broadcast(pool, o, writer, join_message(nicks[writer]), "join")

broadcast_user_quit(pool, o, writer, nicks) ==
    broadcast(pool, o, writer, quit_message(nicks[writer]), "quit")

broadcast_new_message(pool, o, writer, nicks, message) ==
    broadcast(pool, o, writer, chat_message(nicks[writer], message), "chat")

\* broadcast has no try around user.write: a write that raises ends the loop
\* over the pool, and the exception goes up to the handler.
broadcast_raises(pool, writer) == \E user \in pool \ {writer} : write_raises(user)

\* The part of the pool that the loop of broadcast gets through: all of it, or,
\* when a write raises, the writers that the iteration met before that one.
broadcast_reach(pool, writer) ==
    IF broadcast_raises(pool, writer)
    THEN {reached \cup {writer} :
            reached \in SUBSET {user \in pool \ {writer} : ~write_raises(user)}}
    ELSE {pool}

\* list_users as it would be if the listing were written to every writer of
\* the pool.
list_users_to_all(order, o, writer, nicks) ==
    [user \in Sessions |->
        IF \E i \in DOMAIN order : order[i] = user
        THEN Append(o[user], Written(list_message(order, writer, nicks), "list", writer))
        ELSE o[user]]

list_users(order, o, writer, nicks) ==
    write(o, writer, Written(list_message(order, writer, nicks), "list", writer))

\* -------------------------------------------------------- handle_connection
\* One more handler step, within the bound of the model.
tick == steps < MaxSteps /\ steps' = steps + 1

\* accept as it would be if the writer were added to the pool before the
\* nickname line is awaited.
accept_registering(s) ==
    /\ tick
    /\ pc[s] = "new"
    /\ \A t \in Sessions : t < s => pc[t] # "new"
    /\ out' = write(out, s, Written(encode(PROMPT), "prompt", s))
    /\ connection_pool' = add_new_user_to_pool(connection_pool, s)
    /\ pc' = [pc EXCEPT ![s] = "nickname"]
    /\ event' = [op |-> "accept", s |-> s]
    /\ UNCHANGED <<nickname, joined, leftBy>>

\* The listener starts a handler for a new connection; it writes the prompt and
\* awaits the nickname line.  Connections are numbered in the order of accept.
accept(s) ==
    /\ tick
    /\ pc[s] = "new"
    /\ \A t \in Sessions : t < s => pc[t] # "new"
    /\ out' = write(out, s, Written(encode(PROMPT), "prompt", s))
    /\ pc' = [pc EXCEPT ![s] = "nickname"]
    /\ event' = [op |-> "accept", s |-> s]
    /\ UNCHANGED <<connection_pool, nickname, joined, leftBy>>

\* The nickname line arrives and decodes: the handler sets the nickname, adds the
\* writer to the pool, sends the welcome, announces the arrival and awaits the
\* first line of the loop.
handshake(s, data) ==
    /\ tick
    /\ pc[s] = "nickname"
    /\ decodable(data)
    /\ LET nicks == [nickname EXCEPT ![s] = strip(decode(data))]
           pool == add_new_user_to_pool(connection_pool, s)
           welcomed == send_welcome_message(pool, out, s, nicks)
       IN  /\ nickname' = nicks
           /\ connection_pool' = pool
           /\ \E reached \in broadcast_reach(pool, s) :
                out' = broadcast_user_join(reached, welcomed, s, nicks)
           /\ pc' = [pc EXCEPT ![s] = IF broadcast_raises(pool, s)
                                      THEN "raised" ELSE "read"]
    /\ joined' = Append(joined, s)
    /\ event' = [op |-> "handshake", s |-> s, data |-> data]
    /\ UNCHANGED <<leftBy>>

\* handshake_raises as it would be if the end of the handshake were announced
\* as a quit.
handshake_raises_announcing(s, why) ==
    /\ tick
    /\ pc[s] = "nickname"
    /\ \/ why \in {"eof", "error"}
       \/ why = "decode" /\ \E data \in NICK_LINES : ~decodable(data)
    /\ out' = broadcast_user_quit(connection_pool, out, s, nickname)
    /\ pc' = [pc EXCEPT ![s] = "raised"]
    /\ event' = [op |-> "handshake_raises", s |-> s]
    /\ UNCHANGED <<connection_pool, nickname, joined, leftBy>>

\* The first readuntil raises (IncompleteReadError at end of stream, or an error
\* of the transport), or the line is not valid UTF-8: nothing catches it and the
\* handler ends.
handshake_raises(s, why) ==
    /\ tick
    /\ pc[s] = "nickname"
    /\ \/ why \in {"eof", "error"}
       \/ why = "decode" /\ \E data \in NICK_LINES : ~decodable(data)
    /\ pc' = [pc EXCEPT ![s] = "raised"]
    /\ event' = [op |-> "handshake_raises", s |-> s]
    /\ UNCHANGED <<connection_pool, nickname, out, joined, leftBy>>

\* Lines 134-135 and 138-139 with 149-150: the quit is announced, the loop left,
\* the writer closed, and the handler awaits wait_closed().
leave(s, how) ==
    /\ \E reached \in broadcast_reach(connection_pool, s) :
         out' = broadcast_user_quit(reached, out, s, nickname)
    /\ IF broadcast_raises(connection_pool, s)
       THEN /\ pc' = [pc EXCEPT ![s] = "raised"]
            /\ UNCHANGED leftBy
       ELSE /\ pc' = [pc EXCEPT ![s] = "wait_closed"]
            /\ leftBy' = [leftBy EXCEPT ![s] = how]
    /\ UNCHANGED <<connection_pool, nickname, joined>>

\* readuntil raises IncompleteReadError: the peer ended the stream.
read_eof(s) ==
    /\ tick
    /\ pc[s] = "read"
    /\ leave(s, "eof")
    /\ event' = [op |-> "read_eof", s |-> s]

\* The line, stripped, is "/quit".
read_quit(s, data) ==
    /\ tick
    /\ pc[s] = "read"
    /\ decodable(data)
    /\ strip(decode(data)) = QUIT_CMD
    /\ leave(s, "quit")
    /\ event' = [op |-> "read_quit", s |-> s, data |-> data]

\* The line, stripped, is "/list": the listing goes to the requester, and the
\* handler awaits drain().
read_list(s, data, order) ==
    /\ tick
    /\ pc[s] = "read"
    /\ decodable(data)
    /\ strip(decode(data)) = LIST_CMD
    /\ order \in Orders(connection_pool)
    /\ out' = list_users(order, out, s, nickname)
    /\ pc' = [pc EXCEPT ![s] = "drain"]
    /\ event' = [op |-> "read_list", s |-> s, data |-> data, order |-> order]
    /\ UNCHANGED <<connection_pool, nickname, joined, leftBy>>

\* Any other line is a chat message: it is broadcast, and the handler awaits
\* drain().
read_chat(s, data) ==
    /\ tick
    /\ pc[s] = "read"
    /\ decodable(data)
    /\ strip(decode(data)) \notin {QUIT_CMD, LIST_CMD}
    /\ \E reached \in broadcast_reach(connection_pool, s) :
         out' = broadcast_new_message(reached, out, s, nickname, strip(decode(data)))
    /\ pc' = [pc EXCEPT ![s] = IF broadcast_raises(connection_pool, s)
                               THEN "raised" ELSE "drain"]
    /\ event' = [op |-> "read_chat", s |-> s, data |-> data]
    /\ UNCHANGED <<connection_pool, nickname, joined, leftBy>>

\* readuntil raises something other than IncompleteReadError (the connection was
\* reset, the line exceeds the reader's limit), or decode() raises: the except
\* clause does not catch it and the handler ends where it is.
read_raises(s, why) ==
    /\ tick
    /\ pc[s] = "read"
    /\ \/ why = "error"
       \/ why = "decode" /\ \E data \in CHAT_LINES : ~decodable(data)
    /\ pc' = [pc EXCEPT ![s] = "raised"]
    /\ event' = [op |-> "read_raises", s |-> s]
    /\ UNCHANGED <<connection_pool, nickname, out, joined, leftBy>>

\* drain() returns and the writer is not closing: back to readuntil.
drain_returns(s) ==
    /\ tick
    /\ pc[s] = "drain"
    /\ pc' = [pc EXCEPT ![s] = "read"]
    /\ event' = [op |-> "drain_returns", s |-> s]
    /\ UNCHANGED <<connection_pool, nickname, out, joined, leftBy>>

\* drain() returns and writer.is_closing() holds (the transport was closed
\* under the handler): the loop is left without an announcement.
drain_closing(s) ==
    /\ tick
    /\ pc[s] = "drain"
    /\ pc' = [pc EXCEPT ![s] = "wait_closed"]
    /\ leftBy' = [leftBy EXCEPT ![s] = "closing"]
    /\ event' = [op |-> "drain_closing", s |-> s]
    /\ UNCHANGED <<connection_pool, nickname, out, joined>>

\* drain() raises (the connection was lost): the handler ends where it is.
drain_raises(s) ==
    /\ tick
    /\ pc[s] = "drain"
    /\ pc' = [pc EXCEPT ![s] = "raised"]
    /\ event' = [op |-> "drain_raises", s |-> s]
    /\ UNCHANGED <<connection_pool, nickname, out, joined, leftBy>>

\* wait_closed() returns: the writer is removed from the pool and the handler
\* returns.
wait_closed_returns(s) ==
    /\ tick
    /\ pc[s] = "wait_closed"
    /\ IF remove_raises(connection_pool, s)
       THEN /\ pc' = [pc EXCEPT ![s] = "raised"]
            /\ UNCHANGED connection_pool
       ELSE /\ pc' = [pc EXCEPT ![s] = "done"]
            /\ connection_pool' = remove_user_from_pool(connection_pool, s)
    /\ event' = [op |-> "wait_closed_returns", s |-> s]
    /\ UNCHANGED <<nickname, out, joined, leftBy>>

\* wait_closed() raises the exception the connection was lost with: the handler
\* ends before the removal.
wait_closed_raises(s) ==
    /\ tick
    /\ pc[s] = "wait_closed"
    /\ pc' = [pc EXCEPT ![s] = "raised"]
    /\ event' = [op |-> "wait_closed_raises", s |-> s]
    /\ UNCHANGED <<connection_pool, nickname, out, joined, leftBy>>

Next ==
    \E s \in Sessions :
        \/ accept(s)
        \/ \E data \in NICK_LINES : handshake(s, data)
        \/ \E why \in {"eof", "error", "decode"} : handshake_raises(s, why)
        \/ read_eof(s)
        \/ \E data \in CHAT_LINES : read_quit(s, data)
        \/ \E data \in CHAT_LINES : \E order \in Orders(connection_pool) :
              read_list(s, data, order)
        \/ \E data \in CHAT_LINES : read_chat(s, data)
        \/ \E why \in {"error", "decode"} : read_raises(s, why)
        \/ drain_returns(s)
        \/ drain_closing(s)
        \/ drain_raises(s)
        \/ wait_closed_returns(s)
        \/ wait_closed_raises(s)

Spec == Init /\ [][Next]_vars

\* ------------------------------------------------ the pool called directly
\* The methods of ConnectionPool that change the pool, called in any order on
\* any writer by a caller other than handle_connection; the event records
\* whether the call raised.
pool_add(writer) ==
    /\ tick
    /\ connection_pool' = IF add_raises(connection_pool, writer)
                          THEN connection_pool
                          ELSE add_new_user_to_pool(connection_pool, writer)
    /\ event' = [op |-> "pool_add", s |-> writer,
                 raised |-> add_raises(connection_pool, writer)]
    /\ UNCHANGED <<nickname, out, pc, joined, leftBy>>

pool_remove(writer) ==
    /\ tick
    /\ connection_pool' = IF remove_raises(connection_pool, writer)
                          THEN connection_pool
                          ELSE remove_user_from_pool(connection_pool, writer)
    /\ event' = [op |-> "pool_remove", s |-> writer,
                 raised |-> remove_raises(connection_pool, writer)]
    /\ UNCHANGED <<nickname, out, pc, joined, leftBy>>

NextPool ==
    \E writer \in Sessions :
        \/ pool_add(writer)
        \/ pool_remove(writer)

SpecPool == Init /\ [][NextPool]_vars

\* ------------------------------------------------------- reading the output
Last(seq) == seq[Len(seq)]

Range(seq) == {seq[i] : i \in 1..Len(seq)}

\* The position of a writer in the order of joining.
JoinRank(s) == CHOOSE i \in 1..Len(joined) : joined[i] = s

\* A handler that has ended: it returned, or an exception left it.
Ended(s) == pc[s] \in {"done", "raised"}

\* A handler that is past the handshake and has not ended.
Live(s) == pc[s] \in {"read", "drain", "wait_closed"}

\* The number of write() calls on writer b that are message `by` of writer a.
Received(b, by, a) ==
    Cardinality({i \in 1..Len(out[b]) : out[b][i].by = by /\ out[b][i].of = a})

\* The pieces of a text between its "\n\r" terminators.
RECURSIVE SplitEOL(_)
SplitEOL(text) ==
    LET seps == {i \in 1..(Len(text) - 1) : text[i] = "\n" /\ text[i + 1] = "\r"}
    IN  IF seps = {} THEN <<text>>
        ELSE LET i == CHOOSE x \in seps : \A y \in seps : x <= y
             IN  <<SubSeq(text, 1, i - 1)>> \o SplitEOL(SubSeq(text, i + 2, Len(text)))

\* The lines of a listing as the client reads them, between the "===" and
\* "Currently connected users:" lines that open it and the "===" that ends it.
ListingLines(data) ==
    LET parts == SplitEOL(decode(data))
    IN  SubSeq(parts, 3, Len(parts) - 2)

EndsWith(text, suffix) ==
    /\ Len(text) >= Len(suffix)
    /\ SubSeq(text, Len(text) - Len(suffix) + 1, Len(text)) = suffix

\* The line of a listing for a writer, marked or not.
ListingLine(s, marked) ==
    <<" ", "-", " ">> \o nickname[s] \o (IF marked THEN YOU ELSE <<>>)

\* The number of other users a welcome message reports: the digits after
\* "There are " on the fifth line of the banner.
RECURSIVE ToNat(_)
ToNat(digits) ==
    IF digits = <<>> THEN 0
    ELSE 10 * ToNat(SubSeq(digits, 1, Len(digits) - 1))
         + ((CHOOSE d \in 1..10 : DIGITS[d] = Last(digits)) - 1)

ReportedOthers(data) ==
    LET line == SplitEOL(decode(data))[5]
        rest == SubSeq(line, 11, Len(line))
        stop == CHOOSE i \in 1..Len(rest) :
                    rest[i] = " " /\ \A j \in 1..(i - 1) : rest[j] # " "
    IN  IF SubSeq(line, 1, 10) = <<"T", "h", "e", "r", "e", " ", "a", "r", "e", " ">>
        THEN ToNat(SubSeq(rest, 1, stop - 1))
        ELSE 0 - 1

\* The write() call that announces that writer s has quit.
QuitCall(s) == Written(encode(nickname[s] \o JUST_QUIT \o EOL), "quit", s)

\* Every member of the pool but s gets the call appended, nobody else anything.
AppendedToOthers(s, call) ==
    \A b \in Sessions :
        out'[b] = IF b \in connection_pool /\ b # s THEN Append(out[b], call) ELSE out[b]

\* ------------------------------------------------------------------ claims
\* C1: in every reachable state the registry holds exactly the sessions whose
\* handler has completed the handshake and has not ended, whether it ended by
\* returning or by an exception nothing caught.
C1_RegistryIsLiveSessions ==
    connection_pool = {s \in Sessions : Live(s)}

\* C2: once session B has received the quit announcement of session A, no
\* listing that B asks for afterwards contains A.
C2_NoListingOfAnnouncedQuitter ==
    event.op = "read_list" =>
        \A a \in Sessions :
            Received(event.s, "quit", a) > 0 => a \notin Range(event.order)

\* C3: /quit broadcasts exactly one quit announcement to the other members of
\* the registry, and once the quitting session's handler has finished the
\* session is not in the registry.
C3_QuitAnnouncesOnceAndRemoves ==
    [][/\ event'.op = "read_quit" => AppendedToOthers(event'.s, QuitCall(event'.s))
       /\ \A s \in Sessions :
            leftBy'[s] = "quit" =>
                /\ \A b \in Sessions : Received(b, "quit", s)' <= 1
                /\ Ended(s)' => s \notin connection_pool']_vars

\* C4: the end of the stream in the active loop has the outcome of /quit:
\* exactly one quit announcement to the other members of the registry, and the
\* session removed from the registry once its handler has finished.
C4_EofAnnouncesOnceAndRemoves ==
    [][/\ event'.op = "read_eof" =>
            /\ AppendedToOthers(event'.s, QuitCall(event'.s))
            /\ pc'[event'.s] = "wait_closed"
       /\ \A s \in Sessions :
            leftBy'[s] = "eof" =>
                /\ \A b \in Sessions : Received(b, "quit", s)' <= 1
                /\ Ended(s)' => s \notin connection_pool']_vars

\* C5: a chat line from session A appends "[<A's nickname>]: <message>" to the
\* sink of every member of the registry other than A, and nothing to the sink
\* of A or of a session outside the registry.
C5_ChatToOthersOnly ==
    [][event'.op = "read_chat" =>
        LET a == event'.s
            message == strip(decode(event'.data))
            text == <<"[">> \o nickname[a] \o <<"]", ":", " ">> \o message \o EOL
        IN  AppendedToOthers(a, Written(encode(text), "chat", a))]_vars

C5_Witness ==
    /\ event.op = "read_chat"
    /\ Cardinality(connection_pool \ {event.s}) >= 2
    /\ \A b \in connection_pool \ {event.s} :
         Last(out[b]).by = "chat" /\ Last(out[b]).of = event.s
    /\ Last(out[event.s]).by = "welcome"

\* C6: as long as no registered session has left its loop, the welcome sent to
\* the Nth session that completes the handshake reports N - 1 other users.
C6_WelcomeCountsOthers ==
    (event.op = "handshake" /\ \A s \in Range(joined) : pc[s] \in {"read", "drain"}) =>
        /\ Last(out[event.s]).by = "welcome"
        /\ ReportedOthers(Last(out[event.s]).data) = JoinRank(event.s) - 1

C6_Witness ==
    /\ event.op = "handshake"
    /\ \A s \in Range(joined) : pc[s] \in {"read", "drain"}
    /\ JoinRank(event.s) = 3
    /\ ReportedOthers(Last(out[event.s]).data) = 2

\* C7: every member of the registry has a nickname that is not empty after
\* trimming.
C7_NoEmptyNickname ==
    \A s \in connection_pool : strip(nickname[s]) # <<>>

C9_ListingInInsertionOrder ==
    event.op = "read_list" =>
        \A i, j \in 1..Len(event.order) :
            i < j => JoinRank(event.order[i]) < JoinRank(event.order[j])

\* C10: when a session completes the handshake, "<nickname> just joined" is
\* written exactly once to every session already in the registry, and never to
\* the joining session.
C10_JoinAnnouncedOnceToOthers ==
    [][/\ event'.op = "handshake" =>
            LET s == event'.s
                call == Written(encode(nickname'[s] \o JUST_JOINED \o EOL), "join", s)
            IN  /\ \A b \in Sessions \ {s} :
                     out'[b] = IF b \in connection_pool THEN Append(out[b], call)
                               ELSE out[b]
                /\ Len(out'[s]) = Len(out[s]) + 1
                /\ Last(out'[s]).by = "welcome"
       /\ \A s, b \in Sessions :
            Received(s, "join", s)' = 0 /\ Received(b, "join", s)' <= 1]_vars

C10_Witness ==
    /\ event.op = "handshake"
    /\ Cardinality(connection_pool) = 3
    /\ \A b \in connection_pool \ {event.s} :
         Last(out[b]).by = "join" /\ Last(out[b]).of = event.s
    /\ \E b \in connection_pool \ {event.s} : nickname[b] = nickname[event.s]

\* The text is the word with nothing but whitespace before and after it.
IsWrapped(text, word) ==
    \E i \in 1..(Len(text) + 1) :
        /\ i + Len(word) - 1 <= Len(text)
        /\ SubSeq(text, i, i + Len(word) - 1) = word
        /\ \A k \in 1..Len(text) :
             (k < i \/ k > i + Len(word) - 1) => text[k] \in WHITESPACE

\* The part of the text between its leading and its trailing whitespace.
Trimmed(text) ==
    CHOOSE word \in {SubSeq(text, i, j) : i \in 1..(Len(text) + 1), j \in 0..Len(text)} :
        /\ IsWrapped(text, word)
        /\ word # <<>> => (word[1] \notin WHITESPACE /\ Last(word) \notin WHITESPACE)

\* A line as the client typed it: the bytes decoded, without the "\n" at the end.
Typed(data) == SubSeq(decode(data), 1, Len(data) - 1)

\* The last step handled a line of the loop.
LineHandled == event.op \in {"read_quit", "read_list", "read_chat"}

\* The last step broadcast the message as chat and left its session in the loop
\* and in the registry.
ChatBroadcast(message) ==
    /\ event.op = "read_chat"
    /\ pc[event.s] = "drain"
    /\ event.s \in connection_pool
    /\ \A b \in connection_pool \ {event.s} :
         Last(out[b]) =
            Written(encode(<<"[">> \o nickname[event.s] \o <<"]", ":", " ">>
                             \o message \o EOL), "chat", event.s)

C12_RemoveIsIdempotent ==
    [][\A writer \in Sessions :
         (pool_remove(writer) /\ writer \notin connection_pool) =>
            (~event'.raised /\ connection_pool' = connection_pool)]_vars

\* A member of the pool that a write fails for: its writer was closed, or its
\* handler ended by an exception.
WriteFails(b) == b \in connection_pool /\ (leftBy[b] # "none" \/ pc[b] = "raised")

\* A step in which s broadcasts: its join, a chat message or its quit.
Broadcasts(s) ==
    \/ \E data \in NICK_LINES : handshake(s, data)
    \/ \E data \in CHAT_LINES : read_chat(s, data) \/ read_quit(s, data)
    \/ read_eof(s)

C14_AddOfMemberFails ==
    [][\A writer \in Sessions :
         (pool_add(writer) /\ writer \in connection_pool) =>
            (event'.raised /\ connection_pool' = connection_pool)]_vars

\* C15: whatever takes a registered session out of the loop (/quit, the end of
\* the stream, an error of the transport, the writer found closing after a
\* drain), the step that does so announces the quit to the other members of
\* the pool, and no sink ever holds the quit of one session twice.
C15_QuitAnnouncedWhateverEnds ==
    [][\A s \in Sessions :
         /\ (pc[s] \in {"read", "drain"} /\ pc'[s] \notin {"read", "drain"}) =>
               AppendedToOthers(s, QuitCall(s))
         /\ \A b \in Sessions : Received(b, "quit", s)' <= 1]_vars

\* C16: once a handler has closed its writer, no step of any handler writes to
\* that writer again.
C16_NoWriteAfterClose ==
    [][\A b \in Sessions : leftBy[b] # "none" => out'[b] = out[b]]_vars

\* C17: handling /list appends one write, the listing, to the requester's
\* sink and changes nothing else: the pool, the nicknames, every other sink
\* and every other handler are as before, and the requester stays in the loop.
C17_ListWritesToRequesterOnly ==
    [][event'.op = "read_list" =>
         LET s == event'.s
         IN  /\ connection_pool' = connection_pool
             /\ nickname' = nickname
             /\ joined' = joined /\ leftBy' = leftBy
             /\ \A b \in Sessions \ {s} : out'[b] = out[b] /\ pc'[b] = pc[b]
             /\ out'[s] = Append(out[s], Last(out'[s]))
             /\ Last(out'[s]).by = "list" /\ Last(out'[s]).of = s
             /\ pc[s] = "read" /\ pc'[s] = "drain"
             /\ s \in connection_pool']_vars

C17_Witness ==
    /\ event.op = "read_list"
    /\ Cardinality(connection_pool) > 1
    /\ pc[event.s] = "drain"
    /\ Last(out[event.s]).by = "list"
    /\ \E b \in connection_pool \ {event.s} : out[b] # <<>>

\* The positions in the sink of s of the writes of one kind.
Writes(s, kinds) == {i \in 1..Len(out[s]) : out[s][i].by \in kinds}

\* C18: in the sink of every session, each join announcement, quit
\* announcement and chat message of another session comes after the session's
\* own welcome message.
C18_WelcomeBeforeBroadcasts ==
    \A s \in Sessions :
        \A i \in Writes(s, {"join", "quit", "chat"}) :
            /\ out[s][i].of # s
            /\ \E j \in Writes(s, {"welcome"}) : j < i /\ out[s][j].of = s

C18_Witness ==
    \E s \in Sessions :
        \E w \in Writes(s, {"welcome"}) :
            \E j \in Writes(s, {"join"}), c \in Writes(s, {"chat"}), q \in Writes(s, {"quit"}) :
                w < j /\ j < c /\ c < q

\* C19: a handler that ends in the handshake changes nothing that is shared:
\* the step leaves the pool, the nicknames and every sink as they were, the
\* session is never in the pool, and no sink holds a write made for it other
\* than its own prompt.
C19_FailedHandshakeHasNoEffect ==
    [][/\ event'.op = "handshake_raises" =>
            /\ connection_pool' = connection_pool
            /\ out' = out
            /\ nickname' = nickname /\ joined' = joined /\ leftBy' = leftBy
            /\ \A b \in Sessions \ {event'.s} : pc'[b] = pc[b]
       /\ \A s \in Sessions :
            (pc'[s] = "raised" /\ \A i \in 1..Len(joined') : joined'[i] # s) =>
                /\ s \notin connection_pool'
                /\ \A b \in Sessions \ {s} :
                     \A i \in 1..Len(out'[b]) : out'[b][i].of # s
                /\ \A i \in 1..Len(out'[s]) : out'[s][i].by = "prompt"]_vars

C19_Witness ==
    /\ event.op = "handshake_raises"
    /\ pc[event.s] = "raised"
    /\ event.s \notin connection_pool
    /\ \E b \in connection_pool : pc[b] = "read" /\ Last(out[b]).by = "welcome"

====
